---------------------------- MODULE Spec2Model ----------------------------
(***************************************************************************)
(* A model of selenic/util.py: the timeout stack of Util (push_timeout,    *)
(* pop_timeout, local_timeout), the free function locations_within and     *)
(* the visibility probe Util.visible_to_user.                              *)
(*                                                                         *)
(* Three specifications share the module, one per part of the file:        *)
(*   Spec     the timeout stack and the driver's script timeout            *)
(*   SpecLoc  locations_within applied to bounded inputs                   *)
(*   SpecVis  visible_to_user applied to a small page                      *)
(***************************************************************************)
EXTENDS Integers, Sequences, FiniteSets, TLC

VARIABLES
    timeouts,       \* Util.timeouts: the stack, front element first
    driverTimeout,  \* the script timeout the driver last accepted
    scopes,         \* open local_timeout scopes: the depth before each entry
    last,           \* history: the last timeout operation and its outcome
    locIn,          \* locations_within: the arguments (a, b, tolerance)
    locOut,         \* locations_within: the outcome of the call
    display,        \* the page: CSS display of every overlay element
    visLast         \* history: the last visible_to_user call

vars == <<timeouts, driverTimeout, scopes, last, locIn, locOut, display, visLast>>

timeoutVars == <<timeouts, driverTimeout, scopes, last>>
locVars == <<locIn, locOut>>
visVars == <<display, visLast>>

---------------------------------------------------------------------------
(* Bounds of the model.                                                    *)

MaxTimeout == 2
MaxDepth == 3
MaxScopes == 2

Timeouts == 1..MaxTimeout

Nil == "none"

---------------------------------------------------------------------------
(* The timeout stack.                                                      *)
(*                                                                         *)
(* driver.set_script_timeout is a call into the browser driver: it either  *)
(* takes effect and returns, or raises and leaves the driver's timeout as  *)
(* it was.  driverOk is that outcome.                                      *)

\* The `timeout` property: the front element.
timeout(s) == s[1]

\* self.timeouts[0:0] = [new]
push_front_Appended(s, new) == Append(s, new)

push_front(s, new) == <<new>> \o s

\* push_timeout: the stack is changed first, the driver is called second.
push_timeout(s, d, new, driverOk) ==
    [ stack   |-> push_front(s, new),
      driver  |-> IF driverOk THEN new ELSE d,
      outcome |-> IF driverOk THEN "ok" ELSE "driver_raised",
      ret     |-> Nil,
      called  |-> TRUE,
      popCall |-> FALSE ]

\* A pop_timeout that removes the element before it looks at the length.
pop_timeout_CheckAfter(s, d, driverOk) ==
    IF Len(s) = 1
    THEN [ stack |-> Tail(s), driver |-> d, outcome |-> "single_raised",
           ret |-> Nil, called |-> FALSE, popCall |-> TRUE ]
    ELSE IF Len(s) = 0
    THEN [ stack |-> s, driver |-> d, outcome |-> "index_raised",
           ret |-> Nil, called |-> FALSE, popCall |-> TRUE ]
    ELSE IF driverOk
    THEN [ stack |-> Tail(s), driver |-> s[2], outcome |-> "ok",
           ret |-> s[1], called |-> TRUE, popCall |-> TRUE ]
    ELSE [ stack |-> s, driver |-> d, outcome |-> "driver_raised",
           ret |-> Nil, called |-> TRUE, popCall |-> TRUE ]

\* pop_timeout: the length check, then the driver call with the element in
\* 2nd position, then the removal of the front element, which is returned.
\* (On an empty list the read of timeouts[1] raises IndexError.)
pop_timeout(s, d, driverOk) ==
    IF Len(s) = 1
    THEN [ stack |-> s, driver |-> d, outcome |-> "single_raised",
           ret |-> Nil, called |-> FALSE, popCall |-> TRUE ]
    ELSE IF Len(s) = 0
    THEN [ stack |-> s, driver |-> d, outcome |-> "index_raised",
           ret |-> Nil, called |-> FALSE, popCall |-> TRUE ]
    ELSE IF driverOk
    THEN [ stack |-> Tail(s), driver |-> s[2], outcome |-> "ok",
           ret |-> s[1], called |-> TRUE, popCall |-> TRUE ]
    ELSE [ stack |-> s, driver |-> d, outcome |-> "driver_raised",
           ret |-> Nil, called |-> TRUE, popCall |-> TRUE ]

\* An exit that pops only when the body finished normally (no `finally`).
local_timeout_exit_NoFinally(s, d, bodyRaised, driverOk) ==
    IF bodyRaised
    THEN [ stack |-> s, driver |-> d, outcome |-> "skipped",
           ret |-> Nil, called |-> FALSE, popCall |-> FALSE ]
    ELSE pop_timeout(s, d, driverOk)

\* local_timeout, after the yield: `finally: self.pop_timeout()`.
local_timeout_exit(s, d, bodyRaised, driverOk) == pop_timeout(s, d, driverOk)

\* The history record of one operation: what it was, the state it found, the
\* operation before it, whether every driver call so far went through
\* (clean), and the default timeout given at construction.
Record(op, arg, r, scope, before, bodyRaised) ==
    [ op |-> op, arg |-> arg, outcome |-> r.outcome, ret |-> r.ret,
      pre |-> timeouts, preDriver |-> driverTimeout,
      called |-> r.called, popCall |-> r.popCall,
      prevOp |-> last.op, prevArg |-> last.arg, prevPre |-> last.pre,
      scope |-> scope, before |-> before, bodyRaised |-> bodyRaised,
      clean |-> (last.clean /\ r.outcome # "driver_raised"),
      default |-> last.default ]

\* Util.__init__: one element on the stack, the driver set to it.
InitTimeouts ==
    \E d \in Timeouts :
        /\ timeouts = <<d>>
        /\ driverTimeout = d
        /\ scopes = <<>>
        /\ last = [ op |-> "init", arg |-> d, outcome |-> "ok", ret |-> Nil,
                    pre |-> <<>>, preDriver |-> Nil,
                    called |-> TRUE, popCall |-> FALSE,
                    prevOp |-> "none", prevArg |-> Nil, prevPre |-> <<>>,
                    scope |-> "none", before |-> 0, bodyRaised |-> FALSE,
                    clean |-> TRUE, default |-> d ]

IdleTimeouts ==
    /\ timeouts = <<1>>
    /\ driverTimeout = 1
    /\ scopes = <<>>
    /\ last = [ op |-> "init", arg |-> 1, outcome |-> "ok", ret |-> Nil,
                pre |-> <<>>, preDriver |-> Nil,
                called |-> TRUE, popCall |-> FALSE,
                prevOp |-> "none", prevArg |-> Nil, prevPre |-> <<>>,
                scope |-> "none", before |-> 0, bodyRaised |-> FALSE,
                    clean |-> TRUE, default |-> 1 ]

\* A call of push_timeout(new), from the caller or from a scope's body.
CallPushTimeout ==
    \E new \in Timeouts, driverOk \in BOOLEAN :
        /\ Len(timeouts) < MaxDepth
        /\ LET r == push_timeout(timeouts, driverTimeout, new, driverOk) IN
            /\ timeouts' = r.stack
            /\ driverTimeout' = r.driver
            /\ last' = Record("push", new, r, "none", 0, FALSE)
        /\ UNCHANGED <<scopes, locVars, visVars>>

\* A call of pop_timeout(), from the caller or from a scope's body.
CallPopTimeout ==
    \E driverOk \in BOOLEAN :
        /\ LET r == pop_timeout(timeouts, driverTimeout, driverOk) IN
            /\ timeouts' = r.stack
            /\ driverTimeout' = r.driver
            /\ last' = Record("pop", Nil, r, "none", 0, FALSE)
        /\ UNCHANGED <<scopes, locVars, visVars>>

\* `with util.local_timeout(value):` up to the yield.  push_timeout runs
\* before the try block: when it raises, the scope is not entered and no
\* pop is registered.
EnterLocalTimeout ==
    \E value \in Timeouts, driverOk \in BOOLEAN :
        /\ Len(timeouts) < MaxDepth
        /\ Len(scopes) < MaxScopes
        /\ LET r == push_timeout(timeouts, driverTimeout, value, driverOk) IN
            /\ timeouts' = r.stack
            /\ driverTimeout' = r.driver
            /\ last' = Record("push", value, r, "enter", Len(timeouts), FALSE)
            /\ scopes' = IF r.outcome = "ok"
                         THEN Append(scopes, Len(timeouts))
                         ELSE scopes
        /\ UNCHANGED <<locVars, visVars>>

\* The innermost scope's body ends, normally or by raising (its own error or
\* one that a push or pop in it raised), and the exit code runs.
ExitLocalTimeout ==
    \E bodyRaised \in BOOLEAN, driverOk \in BOOLEAN :
        /\ scopes # <<>>
        /\ LET r == local_timeout_exit(timeouts, driverTimeout, bodyRaised, driverOk)
               before == scopes[Len(scopes)] IN
            /\ timeouts' = r.stack
            /\ driverTimeout' = r.driver
            /\ last' = Record(IF r.popCall THEN "pop" ELSE "none", Nil, r,
                              "exit", before, bodyRaised)
        /\ scopes' = SubSeq(scopes, 1, Len(scopes) - 1)
        /\ UNCHANGED <<locVars, visVars>>

---------------------------------------------------------------------------
(* locations_within(a, b, tolerance).                                      *)
(*                                                                         *)
(* A dict is a sequence of <<key, value>> pairs with distinct keys, in the *)
(* dict's iteration order.  A value is a number counted in halves (3 is    *)
(* 1.5), so that int() is a real conversion: it truncates toward zero.     *)

MaxRaw == 3
MaxTol == 1

Keys == {"x", "y"}
RawVals == (-MaxRaw)..MaxRaw
Tolerances == 0..MaxTol

Abs(n) == IF n < 0 THEN -n ELSE n

\* Python's int() on a number: truncation toward zero.
int(raw) == IF raw >= 0 THEN raw \div 2 ELSE -((-raw) \div 2)

KeysOf(m) == {m[i][1] : i \in 1..Len(m)}

\* m[key]
Lookup(m, key) == m[CHOOSE i \in 1..Len(m) : m[i][1] = key][2]

\* del m[key]: the other items keep their order.
Del(m, key) == SelectSeq(m, LAMBDA item : item[1] # key)

Dicts ==
    { m \in UNION {[1..n -> Keys \X RawVals] : n \in 0..Cardinality(Keys)} :
        \A i, j \in 1..Len(m) : i # j => m[i][1] # m[j][1] }

\* abs(int(value) - int(b[key])) >= tolerance
differs_Exclusive(value, other, tolerance) ==
    Abs(int(value) - int(other)) >= tolerance

\* abs(int(value) - int(b[key])) > tolerance
differs(value, other, tolerance) ==
    Abs(int(value) - int(other)) > tolerance

\* 'key {0} differs: {1} {2}'.format(key, int(value), int(b[key]))
describe(key, value, other) == <<key, int(value), int(other)>>

\* The end of the function without the `if b:` test.
after_loop_Unchecked(b, ret) ==
    [ outcome |-> "returned", msg |-> "", ret |-> ret ]

\* if b: raise ValueError("keys in b not seen in a: ...");  return ret
after_loop(b, ret) ==
    IF b # <<>>
    THEN [ outcome |-> "ValueError", msg |-> "keys in b not seen in a", ret |-> <<>> ]
    ELSE [ outcome |-> "returned", msg |-> "", ret |-> ret ]

RECURSIVE loc_loop(_, _, _, _, _)
\* for (key, value) in a.items(): from item i on, b being the rest of the
\* clone and ret the descriptions so far (a string, kept as their sequence).
loc_loop(a, i, b, tolerance, ret) ==
    IF i > Len(a)
    THEN after_loop(b, ret)
    ELSE LET key == a[i][1]
             value == a[i][2]
         IN  IF key \notin KeysOf(b)
             THEN [ outcome |-> "ValueError", msg |-> "b does not have the key",
                    ret |-> <<>> ]
             ELSE loc_loop(a, i + 1, Del(b, key), tolerance,
                           IF differs(value, Lookup(b, key), tolerance)
                           THEN Append(ret, describe(key, value, Lookup(b, key)))
                           ELSE ret)

locations_within(a, b, tolerance) == loc_loop(a, 1, b, tolerance, <<>>)

NotCalled == [ outcome |-> "none", msg |-> "", ret |-> <<>> ]

InitLoc ==
    /\ locIn \in [ a : Dicts, b : Dicts, tolerance : Tolerances ]
    /\ locOut = NotCalled

IdleLoc ==
    /\ locIn = [ a |-> <<>>, b |-> <<>>, tolerance |-> 0 ]
    /\ locOut = NotCalled

\* A call of locations_within on the arguments.
CallLocationsWithin ==
    /\ locOut = NotCalled
    /\ locOut' = locations_within(locIn.a, locIn.b, locIn.tolerance)
    /\ UNCHANGED <<locIn, timeoutVars, visVars>>

---------------------------------------------------------------------------
(* visible_to_user(element, *ignorable).                                   *)
(*                                                                         *)
(* The page holds the target element "el", a descendant "child" of it,     *)
(* some unrelated element "other" and two overlay elements.  An overlay    *)
(* may lie over the whole target; under it, each corner of the target's    *)
(* rectangle shows "el", "child" or "other".                               *)

MaxCoord == 2
MaxSize == 1
MaxWin == 1
MaxIgnorable == 2

Overlays == {"ov1", "ov2"}
DisplayVals == {"block", "inline", "none"}
Selectors == {".layer", "#ov2"}
Corners == <<"tl", "bl", "tr", "br">>
CornerSet == {"tl", "bl", "tr", "br"}
Coords == (-MaxCoord)..MaxCoord
Sizes == 1..MaxSize
WinSizes == 1..MaxWin

\* jQuery(selector): the matched elements, in document order.
Matches(selector) ==
    IF selector = ".layer" THEN <<"ov1", "ov2">> ELSE <<"ov2">>

MatchSet(selector) == {Matches(selector)[i] : i \in 1..Len(Matches(selector))}

IgnorableLists == UNION {[1..n -> Selectors] : n \in 0..MaxIgnorable}

\* The elements some selector of the list matches.
Ignored(ignorable) == UNION {MatchSet(ignorable[i]) : i \in 1..Len(ignorable)}

\* The outside-the-viewport test of the Python code.
outside_viewport(pos, size, window_size) ==
    \/ pos.top + size.height < 0
    \/ pos.left + size.width < 0
    \/ pos.top > window_size.height
    \/ pos.left > window_size.width

\* $(x).css("display"): the value of the first matched element.
css_get(disp, selector) ==
    IF Matches(selector) = <<>> THEN "undefined" ELSE disp[Matches(selector)[1]]

\* $(x).css("display", value): sets every matched element; an undefined
\* value sets nothing.
css_set(disp, selector, value) ==
    IF value = "undefined"
    THEN disp
    ELSE [e \in Overlays |-> IF e \in MatchSet(selector) THEN value ELSE disp[e]]

\* ignorable.forEach(function (x) { old_displays.push($(x).css("display")) })
old_displays(disp, ignorable) ==
    [i \in 1..Len(ignorable) |-> css_get(disp, ignorable[i])]

\* $ignorable.css("display", "none"), $ignorable being $(ignorable) for an
\* array of selector strings.  jQuery decides what that object holds: the
\* matched elements (hides) or the strings themselves, on which css() sets
\* nothing.
hide(disp, ignorable, hides) ==
    IF hides
    THEN [e \in Overlays |-> IF e \in Ignored(ignorable) THEN "none" ELSE disp[e]]
    ELSE disp

\* document.elementFromPoint at a corner.
efp(disp, under, cover, corner) ==
    IF cover # "nil" /\ disp[cover] # "none" THEN cover ELSE under[corner]

RECURSIVE corner_test(_, _, _, _, _)
\* (at_corner = efp(..) === el) || el.contains(at_corner) || ..., from
\* corner i on.  `===` binds tighter than `=`: at_corner is the boolean.
\* el.contains(false) raises a TypeError in a browser that type-checks the
\* argument and is false in one that does not (containsThrows).
corner_test(disp, under, cover, containsThrows, i) ==
    IF i > Len(Corners)
    THEN "false"
    ELSE IF efp(disp, under, cover, Corners[i]) = "el"
    THEN "true"
    ELSE IF containsThrows
    THEN "throw"
    ELSE corner_test(disp, under, cover, containsThrows, i + 1)

RECURSIVE restore(_, _, _, _)
\* finally: ignorable.forEach(function (x) { $(x).css("display",
\* old_displays[ix]); ix++; }), from selector i on.
restore(disp, ignorable, old, i) ==
    IF i > Len(ignorable)
    THEN disp
    ELSE restore(css_set(disp, ignorable[i], old[i]), ignorable, old, i + 1)

\* The script passed to execute_script.
visibility_script(disp, ignorable, under, cover, hides, containsThrows) ==
    LET old == old_displays(disp, ignorable)
        hidden == hide(disp, ignorable, hides)
        test == corner_test(hidden, under, cover, containsThrows, 1)
    IN  [ outcome |-> IF test = "throw" THEN "raised" ELSE "returned",
          ret |-> (test = "true"),
          display |-> restore(hidden, ignorable, old, 1),
          queried |-> TRUE, hidCall |-> TRUE, hitTested |-> TRUE ]

EarlyFalse(disp, queried) ==
    [ outcome |-> "returned", ret |-> FALSE, display |-> disp,
      queried |-> queried, hidCall |-> FALSE, hitTested |-> FALSE ]

visible_to_user(disp, args) ==
    IF ~args.displayed
    THEN EarlyFalse(disp, FALSE)
    ELSE IF outside_viewport(args.pos, args.size, args.window_size)
    THEN EarlyFalse(disp, TRUE)
    ELSE visibility_script(disp, args.ignorable, args.under, args.cover,
                           args.hides, args.containsThrows)

NoInput ==
    [ displayed |-> FALSE, pos |-> [top |-> 0, left |-> 0],
      size |-> [height |-> 1, width |-> 1],
      window_size |-> [height |-> 1, width |-> 1],
      ignorable |-> <<>>, under |-> [c \in CornerSet |-> "other"],
      cover |-> "nil", hides |-> FALSE, containsThrows |-> FALSE ]

VisNotCalled ==
    [ called |-> FALSE, args |-> NoInput, outcome |-> "none", ret |-> FALSE,
      pre |-> [e \in Overlays |-> "block"],
      queried |-> FALSE, hidCall |-> FALSE, hitTested |-> FALSE ]

\* What the page shows and what the browser does: the inputs the script
\* reads once the Python checks have passed.
PageInputs ==
    [ under : [CornerSet -> {"el", "child", "other"}],
      cover : {"nil", "ov1"},
      hides : BOOLEAN,
      containsThrows : BOOLEAN ]

Geometries ==
    [ pos : [top : Coords, left : Coords],
      size : [height : Sizes, width : Sizes],
      window_size : [height : WinSizes, width : WinSizes] ]

\* The box lies outside the window, a box that touches a window edge from
\* outside included: no pixel of the element is in the window.
BoxOutside(pos, size, window_size) ==
    \/ pos.top + size.height <= 0
    \/ pos.left + size.width <= 0
    \/ pos.top >= window_size.height
    \/ pos.left >= window_size.width

\* The pages a geometry allows: the corners of a box outside the window hit
\* neither the element nor a descendant of it.
PagesFor(g) ==
    IF BoxOutside(g.pos, g.size, g.window_size)
    THEN {p \in PageInputs : \A c \in CornerSet : p.under[c] = "other"}
    ELSE PageInputs

InitVis ==
    /\ display \in [Overlays -> DisplayVals]
    /\ visLast = VisNotCalled

IdleVis ==
    /\ display = [e \in Overlays |-> "block"]
    /\ visLast = VisNotCalled

\* One call of visible_to_user.  The inputs a path of the code does not
\* read are left at their NoInput values.
CallVisibleToUser ==
    /\ ~visLast.called
    /\ \E displayed \in BOOLEAN, ignorable \in IgnorableLists :
        \E g \in IF displayed THEN Geometries
                 ELSE {[pos |-> NoInput.pos, size |-> NoInput.size,
                        window_size |-> NoInput.window_size]} :
          \E p \in IF displayed /\ ~outside_viewport(g.pos, g.size, g.window_size)
                   THEN PagesFor(g)
                   ELSE {[under |-> NoInput.under, cover |-> NoInput.cover,
                          hides |-> NoInput.hides,
                          containsThrows |-> NoInput.containsThrows]} :
            LET args == [ displayed |-> displayed, pos |-> g.pos, size |-> g.size,
                        window_size |-> g.window_size, ignorable |-> ignorable,
                        under |-> p.under, cover |-> p.cover, hides |-> p.hides,
                        containsThrows |-> p.containsThrows ]
                r == visible_to_user(display, args)
            IN  /\ display' = r.display
                /\ visLast' = [ called |-> TRUE, args |-> args, outcome |-> r.outcome,
                                ret |-> r.ret, pre |-> display,
                                queried |-> r.queried, hidCall |-> r.hidCall,
                                hitTested |-> r.hitTested ]
    /\ UNCHANGED <<timeoutVars, locVars>>

---------------------------------------------------------------------------
(* The specifications.                                                     *)

Init == InitTimeouts /\ IdleLoc /\ IdleVis

Next ==
    \/ CallPushTimeout
    \/ CallPopTimeout
    \/ EnterLocalTimeout
    \/ ExitLocalTimeout

Spec == Init /\ [][Next]_vars

InitL == IdleTimeouts /\ InitLoc /\ IdleVis
NextLoc == CallLocationsWithin
SpecLoc == InitL /\ [][NextLoc]_vars

InitV == IdleTimeouts /\ IdleLoc /\ InitVis
NextVis == CallVisibleToUser
SpecVis == InitV /\ [][NextVis]_vars

---------------------------------------------------------------------------
(* The timeout stack: properties (checked under Spec).                     *)

\* C1: a pop_timeout that follows a push_timeout(v) and returns leaves the
\* stack exactly as it was before the push, returns v, and leaves the
\* driver's script timeout at the value that was at the front of the stack
\* before the push.
PushPopRestores ==
    (last.popCall /\ last.outcome = "ok" /\ last.prevOp = "push") =>
        /\ timeouts = last.prevPre
        /\ last.ret = last.prevArg
        /\ driverTimeout = timeout(last.prevPre)

\* C1's case: a push onto a stack of two or more, then the pop, the value
\* popped differing from the front it uncovers.
PushPopReached ==
    /\ last.popCall /\ last.outcome = "ok" /\ last.prevOp = "push"
    /\ Len(timeouts) >= 2
    /\ last.ret # timeout(timeouts)

\* C2: the stack is never empty and its last element is the default timeout
\* given at construction; a pop_timeout on a stack of exactly one element
\* fails, leaving the stack unchanged and the driver not called.
PopSingleFails ==
    /\ Len(timeouts) >= 1
    /\ timeouts[Len(timeouts)] = last.default
    /\ (last.popCall /\ Len(last.pre) = 1) =>
          /\ last.outcome = "single_raised"
          /\ timeouts = last.pre
          /\ ~last.called
          /\ driverTimeout = last.preDriver

\* C2's case: pops brought the stack down to one element and one more pop
\* was tried.
PopSingleReached ==
    /\ last.popCall /\ Len(last.pre) = 1
    /\ last.outcome = "single_raised"
    /\ last.prevOp = "pop"

DriverHoldsFront == driverTimeout = timeout(timeouts)

---------------------------------------------------------------------------
(* locations_within: properties (checked under SpecLoc).                   *)

Called == locOut.outcome # "none"

\* abs(int(a[k]) - int(b[k])) > tolerance, for a key of both mappings.
Exceeds(k) ==
    Abs(int(Lookup(locIn.a, k)) - int(Lookup(locIn.b, k))) > locIn.tolerance

FirstExceeding(i) ==
    /\ i \in 1..Len(locIn.a)
    /\ \A j \in 1..i : locIn.a[j][1] \in KeysOf(locIn.b)
    /\ Exceeds(locIn.a[i][1])
    /\ \A j \in 1..(i - 1) : ~Exceeds(locIn.a[j][1])

\* C6: the call returns at the first key out of tolerance: the description
\* covers that key alone, and no later key is examined (so no key mismatch
\* among the later keys is raised).
ReturnsAtFirstDifference ==
    Called =>
        \A i \in 1..Len(locIn.a) :
            FirstExceeding(i) =>
                /\ locOut.outcome = "returned"
                /\ locOut.ret = << <<locIn.a[i][1], int(locIn.a[i][2]),
                                    int(Lookup(locIn.b, locIn.a[i][1]))>> >>

---------------------------------------------------------------------------
(* visible_to_user: properties (checked under SpecVis).                    *)

\* C7: after a call every element an ignorable selector matches has the
\* display value it had before the call.
DisplaysRestored ==
    visLast.called =>
        \A e \in Ignored(visLast.args.ignorable) : display[e] = visLast.pre[e]

\* The page with every ignorable element hidden.
AllHidden ==
    [e \in Overlays |->
        IF e \in Ignored(visLast.args.ignorable) THEN "none" ELSE visLast.pre[e]]

\* Some corner's hit, the ignorable elements hidden, is the target or a
\* descendant of it.
SomeCornerHits ==
    \E c \in CornerSet :
        efp(AllHidden, visLast.args.under, visLast.args.cover, c) \in {"el", "child"}

\* C8: for a displayed element that the viewport check lets through, the
\* ignorable elements being hidden, the call returns true exactly when some
\* corner's hit is the target or a descendant of it.  (Stated for the
\* browsers in which el.contains(false) is false; in the others the call
\* raises whenever the first corner's hit is not the target.)
TrueIffCornerHits ==
    ( /\ visLast.called
      /\ visLast.args.displayed
      /\ ~outside_viewport(visLast.args.pos, visLast.args.size,
                           visLast.args.window_size)
      /\ visLast.args.hides
      /\ ~visLast.args.containsThrows ) =>
        /\ visLast.outcome = "returned"
        /\ visLast.ret = SomeCornerHits

\* C9: for a displayed element whose box lies outside the window the call
\* returns false without hiding anything or hit-testing; for an element
\* that is not displayed it returns false before any query.
OutsideReturnsFalseEarly ==
    visLast.called =>
        /\ ( /\ visLast.args.displayed
             /\ BoxOutside(visLast.args.pos, visLast.args.size,
                           visLast.args.window_size) ) =>
              /\ visLast.outcome = "returned" /\ ~visLast.ret
              /\ ~visLast.hidCall /\ ~visLast.hitTested
        /\ ~visLast.args.displayed =>
              /\ visLast.outcome = "returned" /\ ~visLast.ret
              /\ ~visLast.queried /\ ~visLast.hidCall /\ ~visLast.hitTested

=============================================================================
